---- MODULE Spec2Model ----
(***************************************************************************)
(* Model of the multi-stem render pipeline of AudioLabStudio:              *)
(*   server/services/dspRenderer.ts   renderMix                            *)
(* Each renderMix invocation is a call slot c.  A call awaits fs.mkdir,    *)
(* then synchronously assembles the ffmpeg argument list and the           *)
(* -filter_complex text, spawns the child process and registers the        *)
(* 'data' / 'close' / 'error' listeners.  The child process and the file   *)
(* system are the environment.                                             *)
(*                                                                         *)
(* Numbers: volume, pan and the channel gains are multiples of 1/Unity     *)
(* (binary fractions, exact in IEEE doubles); the integer q stands for the *)
(* JavaScript number q / Unity; Unity itself is the literal 1.0.           *)
(* Text: the filter graph is kept as the sequence of the pieces the        *)
(* template literals concatenate; Text(tokens) is the string itself.       *)
(* stderr: a chunk is a sequence of bytes, the accumulated string a        *)
(* sequence of Unicode code points.                                        *)
(***************************************************************************)
EXTENDS Integers, Sequences, FiniteSets, TLC

\* ------------------------------------------------------------------ bounds
MaxStems == 2
MaxChunks == 2
MaxCalls == 2
MaxJobs == 1
MaxDerived == 2

\* The literal 1.0 of the source, in units of a quarter.
Unity == 4

Calls == 1..MaxCalls

\* ------------------------------------------------------------------ inputs
OutputPaths == {"out/mix.wav", "out/alt.wav"}

Stem(f, v, p, e) == [filePath |-> f, volume |-> v, pan |-> p, effects |-> e]
Settings(sr, bd, fmt) == [sampleRate |-> sr, bitDepth |-> bd, format |-> fmt]
Options(s, o, st) == [stems |-> s, outputPath |-> o, settings |-> st]

\* Stems with the pans -1, -3/4, -1/2, 0, 1/4, 1/2, 1 and the volumes 0, 1/2, 3/4,
\* 1, 3/2 (in units of 1/Unity), over two files.
StemPool ==
    {Stem("a.wav", 4, 0, <<>>), Stem("b.wav", 2, -4, <<>>), Stem("a.wav", 3, 4, <<>>),
     Stem("b.wav", 0, 2, <<>>), Stem("a.wav", 6, 1, <<>>), Stem("b.wav", 4, -3, <<"reverb">>),
     Stem("a.wav", 4, -2, <<>>)}

SettingsPool == {Settings(44100, 16, "wav"), Settings(48000, 24, "wav"),
                 Settings(44100, 16, "mp3"), Settings(48000, 24, "flac"),
                 Settings(44100, 16, "ogg")}

RECURSIVE SeqsUpTo(_, _)
SeqsUpTo(S, n) ==
    IF n = 0 THEN {<<>>}
    ELSE LET shorter == SeqsUpTo(S, n - 1)
         IN  shorter \cup {Append(s, x) : s \in {t \in shorter : Len(t) = n - 1}, x \in S}

\* Jobs of the assembly specification: every stem list up to MaxStems.
BuildJobs == {Options(s, "out/mix.wav", st) : s \in SeqsUpTo(StemPool, MaxStems), st \in SettingsPool}

\* Jobs of the lifecycle specification: the stem lists the error paths are about.
RenderStemLists ==
    {<<>>,
     <<Stem("a.wav", 4, 0, <<>>)>>,
     <<Stem("a.wav", 2, 2, <<"sidechain">>)>>,
     <<Stem("a.wav", 3, -4, <<>>), Stem("b.wav", 4, 0, <<"eq">>)>>}
RenderJobs ==
    {Options(s, o, Settings(44100, 16, "wav")) : s \in RenderStemLists, o \in OutputPaths}
        \cup {Options(<<Stem("a.wav", 4, 0, <<>>)>>, "out/mix.wav", Settings(44100, 12, "wav"))}

\* Jobs of the overlap specification: one stem list, either output path.
OverlapJobs == {Options(<<Stem("a.wav", 4, 0, <<>>)>>, o, Settings(44100, 16, "wav")) : o \in OutputPaths}

\* stderr bytes: 'a', and the two bytes of U+00E9 (0xC3 0xA9).
ChunkPool == {<<97>>, <<195, 169>>, <<195>>, <<169>>, <<97, 195>>, <<169, 97>>}

NoOptions == Options(<<>>, "", Settings(0, 0, ""))

\* renderMix: per call slot, and the files the engine has left.
VARIABLES pc, options, args, filterComplex, stderr, promise, child, spawnCount, files
renderVars == <<pc, options, args, filterComplex, stderr, promise, child, spawnCount, files>>

\* The metadata probe (AudioProcessor.analyzeAudio, analyzeAudioFile): the
\* call under way, its ffprobe child, the accumulated stdout and stderr
\* strings, its promise, and whether an 'error' event found no listener.
VARIABLES probe, ffprobe, output, error, probePromise, uncaught
probeVars == <<probe, ffprobe, output, error, probePromise, uncaught>>

\* The mix job functions (functions/mixing.ts): the mixJobs,
\* mixSuggestions and notifications tables (a document's id is its position
\* in the table), the processMixJob runs the scheduler holds, and each
\* job's processMixJob run, and what the last public mutation called
\* (createMixJob, createMixVersion, applySuggestion) answered.
VARIABLES mixJobs, mixSuggestions, notifications, scheduled, run, reply
jobVars == <<mixJobs, mixSuggestions, notifications, scheduled, run, reply>>

nonRenderVars == <<probeVars, jobVars>>
nonProbeVars == <<renderVars, jobVars>>
nonJobVars == <<renderVars, probeVars>>

vars == <<renderVars, probeVars, jobVars>>

\* ------------------------------------------------------- number formatting
\* Number::toString of q / Unity, as a template literal interpolates it:
\* 4 -> "1", 2 -> "0.5", 3 -> "0.75", 6 -> "1.5", 0 -> "0", -2 -> "-0.5".
FormatNumber(q) ==
    LET a == IF q < 0 THEN 0 - q ELSE q
        whole == a \div Unity
        frac == ((a % Unity) * 100) \div Unity
        digits == IF frac = 0 THEN ""
                  ELSE IF frac % 10 = 0 THEN "." \o ToString(frac \div 10)
                  ELSE "." \o ToString(frac)
    IN  (IF q < 0 THEN "-" ELSE "") \o ToString(whole) \o digits

RECURSIVE Text(_)
\* The string a token sequence spells.
Text(tokens) == IF tokens = <<>> THEN "" ELSE Head(tokens) \o Text(Tail(tokens))

RECURSIVE Flatten(_)
Flatten(seqs) == IF seqs = <<>> THEN <<>> ELSE Head(seqs) \o Flatten(Tail(seqs))

\* ------------------------------------------------------------ filter graph
InputPad(index) == "[" \o ToString(index) \o ":a]"

\* const volume = stem.volume || 1.0;  (0 is falsy)
EffectiveVolume(stem) == IF stem.volume = 0 THEN Unity ELSE stem.volume
\* const pan = stem.pan || 0.0;
EffectivePan(stem) == IF stem.pan = 0 THEN 0 ELSE stem.pan

\* Mutant: the two channel formulas exchanged.
LeftGain_Swapped(pan) == IF pan >= 0 THEN Unity ELSE Unity + pan

LeftGain(pan) == IF pan <= 0 THEN Unity ELSE Unity - pan
RightGain(pan) == IF pan >= 0 THEN Unity ELSE Unity + pan

\* Mutant: the label counter kept at module level, so a build numbers its
\* labels after those of the builds still held.
AudioLabel_Shared(index) ==
    "[a" \o ToString(Cardinality({d \in Calls : filterComplex[d] # <<>>}) + index) \o "]"

\* Mutant: one label for every stem.
AudioLabel_Constant(index) == "[a0]"

AudioLabel(index) == "[a" \o ToString(index) \o "]"

\* One iteration of the second stems.forEach: the text appended to
\* filterComplex for the stem at 0-based position index.
StemFilter(stem, index) ==
    LET volume == EffectiveVolume(stem)
        pan == EffectivePan(stem)
        panPart == IF pan # 0
                   THEN <<",pan=stereo|FL=", FormatNumber(LeftGain(pan)), "*c0|FR=",
                          FormatNumber(RightGain(pan)), "*c1">>
                   ELSE <<>>
    IN  <<InputPad(index), "volume=", FormatNumber(volume)>> \o panPart
            \o <<AudioLabel(index), ";">>

\* audioLabels after the loop.
AudioLabels(stems) == [i \in 1..Len(stems) |-> AudioLabel(i - 1)]

\* Mutant: the summing node also for a single label.
MixStage_AlwaysAmix(audioLabels) ==
    audioLabels \o <<"amix=inputs=", ToString(Len(audioLabels)), ":duration=longest", "[out]">>

\* The "Mix all processed stems" branch.
MixStage(audioLabels) ==
    IF Len(audioLabels) > 1
    THEN audioLabels \o <<"amix=inputs=", ToString(Len(audioLabels)), ":duration=longest", "[out]">>
    ELSE <<"[a0]", "acopy", "[out]">>

\* filterComplex as renderMix leaves it before spawning.
BuildFilterComplex(stems) ==
    Flatten([i \in 1..Len(stems) |-> StemFilter(stems[i], i - 1)]) \o MixStage(AudioLabels(stems))

\* Mutant: the PCM codec flag pushed for every container but mp3.
FormatArgs_CodecAlways(settings) ==
    <<"-ar", ToString(settings.sampleRate)>> \o
    (IF settings.format = "mp3"
     THEN <<"-f", "mp3", "-b:a", "320k">>
     ELSE <<"-f", settings.format, "-acodec", "pcm_s" \o ToString(settings.bitDepth) \o "le">>)

\* "Set output format and quality"
FormatArgs(settings) ==
    <<"-ar", ToString(settings.sampleRate)>> \o
    (IF settings.format = "wav"
     THEN <<"-f", "wav", "-acodec", "pcm_s" \o ToString(settings.bitDepth) \o "le">>
     ELSE IF settings.format = "mp3"
     THEN <<"-f", "mp3", "-b:a", "320k">>
     ELSE <<>>)

InputArgs(stems) == Flatten([i \in 1..Len(stems) |-> <<"-i", stems[i].filePath>>])

\* Mutant: the inputs pushed after the graph.
BuildArgs_InputsLate(opts) ==
    <<"-y", "-filter_complex", Text(BuildFilterComplex(opts.stems))>>
        \o InputArgs(opts.stems)
        \o <<"-map", "[out]">>
        \o FormatArgs(opts.settings)
        \o <<opts.outputPath>>

\* args as handed to spawn(FFMPEG_PATH, args).
BuildArgs(opts) ==
    <<"-y">> \o InputArgs(opts.stems)
        \o <<"-filter_complex", Text(BuildFilterComplex(opts.stems))>>
        \o <<"-map", "[out]">>
        \o FormatArgs(opts.settings)
        \o <<opts.outputPath>>

\* ------------------------------------------------------------ stderr text
\* Buffer.prototype.toString(): UTF-8 decoding of one chunk on its own; a
\* byte that starts no complete sequence inside the chunk becomes U+FFFD.
\* (The byte alphabet has one- and two-byte sequences only.)
RECURSIVE BufferToString(_)
BufferToString(data) ==
    IF data = <<>> THEN <<>>
    ELSE IF data[1] < 128 THEN <<data[1]>> \o BufferToString(Tail(data))
    ELSE IF /\ data[1] >= 194 /\ data[1] <= 223 /\ Len(data) >= 2
            /\ data[2] >= 128 /\ data[2] <= 191
    THEN <<(data[1] - 192) * 64 + (data[2] - 128)>> \o BufferToString(SubSeq(data, 3, Len(data)))
    ELSE <<65533>> \o BufferToString(Tail(data))

\* What the engine has written so far is text: "ok" when it ends on a
\* character boundary, "open" when a two-byte character is half written,
\* "bad" when it is no UTF-8 at all.
RECURSIVE WellFormed(_)
WellFormed(bytes) ==
    IF bytes = <<>> THEN "ok"
    ELSE IF bytes[1] < 128 THEN WellFormed(Tail(bytes))
    ELSE IF bytes[1] >= 194 /\ bytes[1] <= 223
    THEN IF Len(bytes) = 1 THEN "open"
         ELSE IF bytes[2] >= 128 /\ bytes[2] <= 191
         THEN WellFormed(SubSeq(bytes, 3, Len(bytes)))
         ELSE "bad"
    ELSE "bad"

\* ---------------------------------------------------------------- promise
Pending == [state |-> "pending", error |-> "", value |-> "", code |-> "", text |-> <<>>]
\* resolve(outputPath)
Fulfilled(path) == [state |-> "fulfilled", error |-> "", value |-> path, code |-> "", text |-> <<>>]
\* reject(new Error(`FFmpeg failed with code ${code}: ${stderr}`))
FFmpegFailed(code, text) ==
    [state |-> "rejected", error |-> "FFmpeg failed with code", value |-> "", code |-> code, text |-> text]
\* reject(error) with the error the child process emitted
SpawnError == [state |-> "rejected", error |-> "spawn ENOENT", value |-> "", code |-> "", text |-> <<>>]
\* the rejection of fs.mkdir, rethrown by the catch block
MkdirError == [state |-> "rejected", error |-> "mkdir EACCES", value |-> "", code |-> "", text |-> <<>>]

\* Mutant: a later resolve / reject replaces the outcome.
Settle_Overwrite(p, outcome) == outcome

\* resolve / reject act on a pending promise only.
Settle(p, outcome) == IF p.state = "pending" THEN outcome ELSE p

NoChild == [status |-> "none", emitted |-> <<>>, exitCode |-> ""]

ExitCodes == {"0", "1", "null"}
\* On a failed launch 'close' reports the negated errno.
LaunchErrno == "-2"

\* ----------------------------------------------------------- probe output
\* ffprobe -print_format json -show_format -show_streams: the stream and
\* format objects the probe prints, as JSON text.
VideoStream == "{\"codec_type\":\"video\",\"codec_name\":\"h264\"}"
SubtitleStream == "{\"codec_type\":\"subtitle\",\"codec_name\":\"mov_text\"}"
AacStream == "{\"codec_type\":\"audio\",\"codec_name\":\"aac\",\"sample_rate\":\"48000\",\"channels\":2}"
FlacStream == "{\"codec_type\":\"audio\",\"codec_name\":\"flac\",\"sample_rate\":\"96000\",\"channels\":1,\"bits_per_sample\":24}"
Mp3Stream == "{\"codec_type\":\"audio\",\"codec_name\":\"mp3\",\"bits_per_sample\":0}"
WavFormat == "{\"format_name\":\"wav\",\"duration\":\"1.5\"}"
SizeFormat == "{\"size\":\"1024\"}"

StreamTexts == {VideoStream, SubtitleStream, AacStream, FlacStream, Mp3Stream}
FormatTexts == {WavFormat, SizeFormat}
StreamsKey == "\"streams\":["
FormatKey == "\"format\":"

\* A property that may be missing is a sequence of length 0 or 1.
StreamObject(type, name, rate, bits, ch) ==
    [codec_type |-> type, codec_name |-> name, sample_rate |-> rate, bits_per_sample |-> bits,
     channels |-> ch]

\* The object a stream text denotes.
StreamValue(text) ==
    CASE text = VideoStream -> StreamObject("video", <<"h264">>, <<>>, <<>>, <<>>)
      [] text = SubtitleStream -> StreamObject("subtitle", <<"mov_text">>, <<>>, <<>>, <<>>)
      [] text = AacStream -> StreamObject("audio", <<"aac">>, <<"48000">>, <<>>, <<2>>)
      [] text = FlacStream -> StreamObject("audio", <<"flac">>, <<"96000">>, <<24>>, <<1>>)
      [] text = Mp3Stream -> StreamObject("audio", <<"mp3">>, <<>>, <<0>>, <<>>)

\* The object a format text denotes.
FormatValue(text) ==
    CASE text = WavFormat -> [format_name |-> <<"wav">>, duration |-> <<"1.5">>]
      [] text = SizeFormat -> [format_name |-> <<>>, duration |-> <<>>]

\* stdout chunks: pieces of probe documents (a whole "{}", the head of a
\* document up to some stream, the tail from the end of the stream list).
StdoutPool ==
    {<<"{", "}">>,
     <<"{", StreamsKey, VideoStream, ",", AacStream, ",", FlacStream>>,
     <<"{", StreamsKey, FlacStream>>,
     <<"{", StreamsKey, VideoStream, ",", SubtitleStream>>,
     <<"{", StreamsKey, Mp3Stream, "]", "}">>,
     <<"{", StreamsKey>>,
     <<"{", FormatKey, WavFormat, "}">>,
     <<"]", ",", FormatKey, WavFormat, "}">>,
     <<"]", ",", FormatKey, SizeFormat, "}">>}

\* stderr chunks of the probe (ASCII).
ProbeStderrPool == {<<97>>}

ProbeFiles == {"in.wav"}
\* stats.size of the probed file.
FileSize == 1024

\* JSON.parse(output): the value of the text, or a SyntaxError (ok = FALSE).
SyntaxError == [ok |-> FALSE, streams |-> <<>>, format |-> <<>>]
EmptyObject == [ok |-> TRUE, streams |-> <<>>, format |-> <<>>]

RECURSIVE ParseElements(_)
\* The elements of an array after "[": element ("," element)* "]".
ParseElements(t) ==
    LET fail == [ok |-> FALSE, list |-> <<>>, rest |-> <<>>]
    IN  IF Len(t) < 2 \/ t[1] \notin StreamTexts THEN fail
        ELSE IF t[2] = "]"
        THEN [ok |-> TRUE, list |-> <<StreamValue(t[1])>>, rest |-> SubSeq(t, 3, Len(t))]
        ELSE IF t[2] = ","
        THEN LET r == ParseElements(SubSeq(t, 3, Len(t)))
             IN  IF r.ok THEN [r EXCEPT !.list = <<StreamValue(t[1])>> \o @] ELSE fail
        ELSE fail

RECURSIVE ParseMembers(_, _)
\* member ("," member)* up to the end of the object; a repeated key
\* replaces the earlier value.
ParseMembers(t, acc) ==
    LET more(rest, obj) == IF rest = <<>> THEN obj
                           ELSE IF rest[1] = "," THEN ParseMembers(Tail(rest), obj)
                           ELSE SyntaxError
    IN  IF t = <<>> THEN SyntaxError
        ELSE IF t[1] = StreamsKey
        THEN IF Len(t) >= 2 /\ t[2] = "]"
             THEN more(SubSeq(t, 3, Len(t)), [acc EXCEPT !.streams = <<(<<>>)>>])
             ELSE LET r == ParseElements(Tail(t))
                  IN  IF r.ok THEN more(r.rest, [acc EXCEPT !.streams = <<r.list>>])
                      ELSE SyntaxError
        ELSE IF t[1] = FormatKey
        THEN IF Len(t) >= 2 /\ t[2] \in FormatTexts
             THEN more(SubSeq(t, 3, Len(t)), [acc EXCEPT !.format = <<FormatValue(t[2])>>])
             ELSE SyntaxError
        ELSE SyntaxError

JsonParse(t) ==
    IF Len(t) < 2 \/ t[1] # "{" \/ t[Len(t)] # "}" THEN SyntaxError
    ELSE IF Len(t) = 2 THEN EmptyObject
    ELSE ParseMembers(SubSeq(t, 2, Len(t) - 1), EmptyObject)

\* parseInt / parseFloat of the numerals the probe prints (parseFloat in
\* units of 1/Unity).
ParseInt(text) == CASE text = "44100" -> 44100 [] text = "48000" -> 48000 [] text = "96000" -> 96000
ParseFloat(text) == CASE text = "0" -> 0 [] text = "1.5" -> 6

\* x || fallback for a property that may be missing: undefined, 0 and ""
\* are falsy.
OrElse(property, fallback) ==
    IF property = <<>> THEN fallback
    ELSE IF property[1] \in {0} THEN fallback
    ELSE property[1]
OrElseText(property, fallback) ==
    IF property = <<>> THEN fallback
    ELSE IF property[1] = "" THEN fallback
    ELSE property[1]

\* Mutant: the last audio stream instead of the first.
FindAudioStream_Last(streams) ==
    LET hits == {i \in DOMAIN streams : streams[i].codec_type = "audio"}
    IN  IF hits = {} THEN <<>>
        ELSE <<streams[CHOOSE i \in hits : \A j \in hits : j <= i]>>

\* data.streams.find(s => s.codec_type === 'audio'): <<>> is undefined.
FindAudioStream(streams) ==
    LET hits == {i \in DOMAIN streams : streams[i].codec_type = "audio"}
    IN  IF hits = {} THEN <<>>
        ELSE <<streams[CHOOSE i \in hits : \A j \in hits : i <= j]>>

\* The record analyzeAudio resolves with.
AudioMetadata(data, audioStream) ==
    [duration |-> ParseFloat(OrElseText(data.format[1].duration, "0")),
     sampleRate |-> ParseInt(OrElseText(audioStream.sample_rate, "44100")),
     bitDepth |-> OrElse(audioStream.bits_per_sample, 16),
     channels |-> OrElse(audioStream.channels, 2),
     format |-> OrElseText(data.format[1].format_name, "unknown"),
     codec |-> audioStream.codec_name,
     fileSize |-> FileSize]

\* ----------------------------------------------------------- probe promise
ProbePending == [state |-> "pending", error |-> "", detail |-> "", text |-> <<>>, value |-> <<>>]
ProbeRejected(message, detail, text) ==
    [state |-> "rejected", error |-> message, detail |-> detail, text |-> text, value |-> <<>>]
\* resolve(...)
ProbeFulfilled(v) == [state |-> "fulfilled", error |-> "", detail |-> "", text |-> <<>>, value |-> <<v>>]
\* reject(new Error(`FFprobe failed: ${error}`))
FFprobeFailed(text) == ProbeRejected("FFprobe failed", "", text)
\* reject(new Error('No audio stream found in file'))
NoAudioStream == ProbeRejected("No audio stream found in file", "", <<>>)
\* reject(new Error(`Failed to parse audio metadata: ${parseError.message}`))
ParseMetadataFailed(message) == ProbeRejected("Failed to parse audio metadata", message, <<>>)
\* reject(new Error(`Failed to parse ffprobe output: ${parseError.message}`))
ParseOutputFailed(message) == ProbeRejected("Failed to parse ffprobe output", message, <<>>)
\* reject(new Error(`ffprobe failed with code ${code}: ${stderr}`))
FfprobeFailedWithCode(code, text) == ProbeRejected("ffprobe failed with code", code, text)

NoProbe == [impl |-> "none", filePath |-> ""]
NoFfprobe == [status |-> "none", out |-> <<>>, err |-> <<>>, exitCode |-> ""]

\* The try block of analyzeAudio's 'close' listener for exit code 0.
\* statOk: whether statSync(filePath) finds the file.
AnalyzeAudioResult(text, statOk) ==
    LET data == JsonParse(text)
    IN  IF ~data.ok THEN ParseMetadataFailed("SyntaxError")
        ELSE IF data.streams = <<>> THEN ParseMetadataFailed("TypeError")
        ELSE LET audioStream == FindAudioStream(data.streams[1])
             IN  IF audioStream = <<>> THEN NoAudioStream
                 ELSE IF ~statOk THEN ParseMetadataFailed("ENOENT")
                 ELSE IF data.format = <<>> THEN ParseMetadataFailed("TypeError")
                 ELSE ProbeFulfilled(AudioMetadata(data, audioStream[1]))

\* The try block of analyzeAudioFile's 'close' listener for exit code 0.
AnalyzeAudioFileResult(text) ==
    LET metadata == JsonParse(text)
    IN  IF ~metadata.ok THEN ParseOutputFailed("SyntaxError")
        ELSE ProbeFulfilled(metadata)

\* --------------------------------------------------------------- mix jobs
\* Ids of the mixJobs table: the jobs of createMixJob and those derived from
\* them by createMixVersion and applySuggestion.
JobIds == 1..(MaxJobs + MaxDerived)
Projects == {"p1"}
\* Prompts are sequences of UTF-16 code units: "mix", and "a" 51 times.
Prompts == {<<109, 105, 120>>, [i \in 1..51 |-> 97]}
PromptLimit == 50
\* prompt.substring(0, 50)
Substring(text) == SubSeq(text, 1, IF Len(text) < PromptLimit THEN Len(text) ELSE PromptLimit)

\* const phases = [...] of createMixJob.
Phase(name) == [name |-> name, status |-> "pending", message |-> <<>>, progress |-> 0]
InitialPhases ==
    <<Phase("Analysis"), Phase("Stem Processing"), Phase("AI Mixing"), Phase("Mastering"),
      Phase("Export")>>

\* The document createMixJob inserts (a field that may be missing is a
\* sequence of length 0 or 1; timestamps are left out).
QueuedJob(projectId, prompt, version) ==
    [projectId |-> projectId, prompt |-> prompt, status |-> "queued", progress |-> 0,
     phases |-> InitialPhases,
     version |-> version, resultFileId |-> <<>>, error |-> <<>>, analysed |-> FALSE,
     parentVersionId |-> <<>>]

\* The document createMixVersion and applySuggestion insert.
DerivedJob(projectId, prompt, version, parentVersionId) ==
    [QueuedJob(projectId, prompt, version) EXCEPT !.parentVersionId = <<parentVersionId>>]

\* An `updates` object of updateMixJobInternal: the fields it carries.
NoUpdates == [status |-> <<>>, progress |-> <<>>, phases |-> <<>>, resultFileId |-> <<>>,
              error |-> <<>>, analysed |-> <<>>]

\* ctx.db.patch(mixJobId, updates): the fields present replace the document's.
Patch(doc, updates) ==
    [doc EXCEPT !.status = IF updates.status = <<>> THEN @ ELSE updates.status[1],
                !.progress = IF updates.progress = <<>> THEN @ ELSE updates.progress[1],
                !.phases = IF updates.phases = <<>> THEN @ ELSE updates.phases[1],
                !.resultFileId = IF updates.resultFileId = <<>> THEN @ ELSE updates.resultFileId,
                !.error = IF updates.error = <<>> THEN @ ELSE updates.error,
                !.analysed = IF updates.analysed = <<>> THEN @ ELSE updates.analysed[1]]

RECURSIVE SumProgress(_)
SumProgress(phases) ==
    IF phases = <<>> THEN 0 ELSE Head(phases).progress + SumProgress(Tail(phases))

\* Math.round(sum / phases.length)
OverallProgress(phases) == (2 * SumProgress(phases) + Len(phases)) \div (2 * Len(phases))

\* updatedPhases of updatePhase (progress < 0 stands for an omitted argument).
UpdatedPhases(phases, phaseIndex, status, message, progress) ==
    [phases EXCEPT ![phaseIndex + 1] =
        [@ EXCEPT !.status = status, !.message = <<message>>,
                  !.progress = IF progress < 0 THEN @ ELSE progress]]

\* The updates updatePhase sends.
PhaseUpdates(doc, phaseIndex, status, message, progress) ==
    LET updatedPhases == UpdatedPhases(doc.phases, phaseIndex, status, message, progress)
    IN  [NoUpdates EXCEPT !.phases = <<updatedPhases>>,
                          !.progress = <<OverallProgress(updatedPhases)>>]

\* The messages of the five phases, entering and leaving.
EnterMessage(phaseIndex) ==
    <<"Analyzing stems...", "Processing stems...", "AI mixing in progress...",
      "Mastering track...", "Exporting final mix...">>[phaseIndex + 1]
LeaveMessage(phaseIndex) ==
    <<"Analysis complete", "Stems processed", "Mixing complete", "Mastering complete",
      "Export complete">>[phaseIndex + 1]

\* What an awaited ctx call of processMixJob may reject with.
ThrownErrors == {[isError |-> TRUE, message |-> "Too many concurrent requests"],
                 [isError |-> TRUE, message |-> "Transient error while executing mutation"]}

\* error instanceof Error ? error.message : "Unknown error occurred"
ErrorMessage(e) == IF e.isError THEN e.message ELSE "Unknown error occurred"
\* error instanceof Error ? error.message : "Unknown error"
ErrorMessageShort(e) == IF e.isError THEN e.message ELSE "Unknown error"

\* generateMockAudioFile
MockAudioFileId == "mock_audio_file_id"

NoError == [isError |-> FALSE, message |-> ""]
NoRun == [pc |-> "none", phase |-> 0, resultFileId |-> <<>>, thrown |-> NoError,
          updates |-> NoUpdates]

\* The suggestions simulateAIMixing may create.
Suggestion(mixJobId, type) == [mixJobId |-> mixJobId, type |-> type, applied |-> FALSE]

\* The description of a suggestion, in code units:
\* "Add high-frequency sparkle around 10-12 kHz for more air" for "eq",
\* "Gentle bus compression for cohesion" for "compression".
Description(type) ==
    IF type = "eq"
    THEN <<65, 100, 100, 32, 104, 105, 103, 104, 45, 102, 114, 101, 113, 117, 101, 110, 99, 121, 32, 115, 112, 97, 114, 107, 108, 101, 32,
          97, 114, 111, 117, 110, 100, 32, 49, 48, 45, 49, 50, 32, 107,
          72, 122, 32, 102, 111, 114, 32, 109, 111, 114, 101, 32, 97, 105, 114>>
    ELSE <<71, 101, 110, 116, 108, 101, 32, 98, 117, 115, 32, 99, 111, 109, 112, 114, 101, 115, 115, 105, 111, 110, 32,
          102, 111, 114, 32, 99, 111, 104, 101, 115, 105, 111, 110>>

\* `${baseMix.prompt} + ${suggestion.description}`
NewPrompt(prompt, description) == prompt \o <<32, 43, 32>> \o description

\* What a public mutation answered: the value it returned, or the message
\* of the error it threw.
NoReply == [fn |-> "", arg |-> 0, value |-> <<>>, error |-> <<>>]
Returned(fn, arg, value) == [fn |-> fn, arg |-> arg, value |-> value, error |-> <<>>]
Threw(fn, arg, message) == [fn |-> fn, arg |-> arg, value |-> <<>>, error |-> <<message>>]

Notification(type, title, message, relatedId) ==
    [type |-> type, title |-> title, message |-> message, read |-> FALSE, relatedId |-> relatedId]

\* ------------------------------------------------------------------- Init
Init ==
    /\ pc = [c \in Calls |-> "idle"]
    /\ options = [c \in Calls |-> NoOptions]
    /\ args = [c \in Calls |-> <<>>]
    /\ filterComplex = [c \in Calls |-> <<>>]
    /\ stderr = [c \in Calls |-> <<>>]
    /\ promise = [c \in Calls |-> Pending]
    /\ child = [c \in Calls |-> NoChild]
    /\ spawnCount = [c \in Calls |-> 0]
    /\ files = {}
    /\ probe = NoProbe
    /\ ffprobe = NoFfprobe
    /\ output = <<>>
    /\ error = <<>>
    /\ probePromise = ProbePending
    /\ uncaught = FALSE
    /\ mixJobs = <<>>
    /\ mixSuggestions = <<>>
    /\ notifications = <<>>
    /\ scheduled = [j \in JobIds |-> 0]
    /\ run = [j \in JobIds |-> NoRun]
    /\ reply = NoReply

\* ---------------------------------------------------------------- actions
\* renderMix(options) up to `await fs.mkdir(...)`.
RenderMix(c, opts) ==
    /\ pc[c] = "idle"
    /\ pc' = [pc EXCEPT ![c] = "mkdir"]
    /\ options' = [options EXCEPT ![c] = opts]
    /\ UNCHANGED <<args, filterComplex, stderr, promise, child, spawnCount, files>>
    /\ UNCHANGED nonRenderVars

\* Mutant: the catch block throws an error of its own.
MkdirRejected_Wrapped(c) ==
    /\ pc[c] = "mkdir"
    /\ pc' = [pc EXCEPT ![c] = "threw"]
    /\ promise' = [promise EXCEPT ![c] =
            Settle(promise[c], [MkdirError EXCEPT !.error = "DSP render failed"])]
    /\ UNCHANGED <<options, args, filterComplex, stderr, child, spawnCount, files>>
    /\ UNCHANGED nonRenderVars

\* fs.mkdir rejects: the catch block logs and rethrows.
MkdirRejected(c) ==
    /\ pc[c] = "mkdir"
    /\ pc' = [pc EXCEPT ![c] = "threw"]
    /\ promise' = [promise EXCEPT ![c] = Settle(promise[c], MkdirError)]
    /\ UNCHANGED <<options, args, filterComplex, stderr, child, spawnCount, files>>
    /\ UNCHANGED nonRenderVars

\* fs.mkdir resolves: the rest of the try block runs to the end of the
\* Promise executor: args and filterComplex are assembled, the child is
\* spawned and the listeners are registered.  launches is the
\* environment's answer: whether the binary can be started.
MkdirResolved(c, launches) ==
    /\ pc[c] = "mkdir"
    /\ pc' = [pc EXCEPT ![c] = "spawned"]
    /\ filterComplex' = [filterComplex EXCEPT ![c] = BuildFilterComplex(options[c].stems)]
    /\ args' = [args EXCEPT ![c] = BuildArgs(options[c])]
    /\ spawnCount' = [spawnCount EXCEPT ![c] = @ + 1]
    /\ child' = [child EXCEPT ![c] = [status |-> IF launches THEN "running" ELSE "failing",
                                      emitted |-> <<>>, exitCode |-> ""]]
    /\ stderr' = [stderr EXCEPT ![c] = <<>>]
    /\ promise' = [promise EXCEPT ![c] = Pending]
    /\ UNCHANGED <<options, files>>
    /\ UNCHANGED nonRenderVars

\* Mutant: stderr is one string shared by all calls (a module-level
\* variable instead of a local of the call).
OnStderrData_Shared(c, data) ==
    /\ child[c].status = "running"
    /\ Len(child[c].emitted) < MaxChunks
    /\ LET all == Flatten(child[c].emitted) \o data
       IN  /\ WellFormed(all) # "bad"
           /\ Len(child[c].emitted) + 1 = MaxChunks => WellFormed(all) = "ok"
    /\ stderr' = [d \in Calls |-> stderr[d] \o BufferToString(data)]
    /\ child' = [child EXCEPT ![c].emitted = Append(@, data)]
    /\ UNCHANGED <<pc, options, args, filterComplex, promise, spawnCount, files>>
    /\ UNCHANGED nonRenderVars

\* ffmpeg.stderr.on('data'): the pipe delivers the next chunk of the
\* engine's diagnostic text, cut wherever the read happened to end.
OnStderrData(c, data) ==
    /\ child[c].status = "running"
    /\ Len(child[c].emitted) < MaxChunks
    /\ LET all == Flatten(child[c].emitted) \o data
       IN  /\ WellFormed(all) # "bad"
           /\ Len(child[c].emitted) + 1 = MaxChunks => WellFormed(all) = "ok"
    /\ stderr' = [stderr EXCEPT ![c] = @ \o BufferToString(data)]
    /\ child' = [child EXCEPT ![c].emitted = Append(@, data)]
    /\ UNCHANGED <<pc, options, args, filterComplex, promise, spawnCount, files>>
    /\ UNCHANGED nonRenderVars

\* Mutant: a failed engine is started once more.
OnClose_Retry(c, code, wrote) ==
    /\ \/ /\ child[c].status = "running"
          /\ code \in ExitCodes
          /\ WellFormed(Flatten(child[c].emitted)) = "ok"
          /\ (wrote => code = "0")
       \/ /\ child[c].status = "errored"
          /\ code = LaunchErrno
          /\ ~wrote
    /\ IF code # "0" /\ spawnCount[c] < 2
       THEN /\ spawnCount' = [spawnCount EXCEPT ![c] = @ + 1]
            /\ child' = [child EXCEPT ![c] = [status |-> "running", emitted |-> <<>>, exitCode |-> ""]]
            /\ stderr' = [stderr EXCEPT ![c] = <<>>]
            /\ UNCHANGED <<promise, files>>
       ELSE /\ promise' = [promise EXCEPT ![c] =
                    Settle(@, IF code = "0" THEN Fulfilled(options[c].outputPath)
                              ELSE FFmpegFailed(code, stderr[c]))]
            /\ child' = [child EXCEPT ![c].status = "closed", ![c].exitCode = code]
            /\ files' = IF wrote THEN files \cup {options[c].outputPath} ELSE files
            /\ UNCHANGED <<stderr, spawnCount>>
    /\ UNCHANGED <<pc, options, args, filterComplex>>
    /\ UNCHANGED nonRenderVars

\* Mutant: the exit code tested for falsiness (if (!code)).
OnClose_Falsy(c, code, wrote) ==
    /\ \/ /\ child[c].status = "running"
          /\ code \in ExitCodes
          /\ WellFormed(Flatten(child[c].emitted)) = "ok"
          /\ (wrote => code = "0")
       \/ /\ child[c].status = "errored"
          /\ code = LaunchErrno
          /\ ~wrote
    /\ promise' = [promise EXCEPT ![c] =
            Settle(@, IF code \in {"0", "null"} THEN Fulfilled(options[c].outputPath)
                      ELSE FFmpegFailed(code, stderr[c]))]
    /\ child' = [child EXCEPT ![c].status = "closed", ![c].exitCode = code]
    /\ files' = IF wrote THEN files \cup {options[c].outputPath} ELSE files
    /\ UNCHANGED <<pc, options, args, filterComplex, stderr, spawnCount>>
    /\ UNCHANGED nonRenderVars

\* ffmpeg.on('close'): code is the exit code ("null" after a signal);
\* wrote tells whether the engine left a file at the output path.
OnClose(c, code, wrote) ==
    /\ \/ /\ child[c].status = "running"
          /\ code \in ExitCodes
          /\ WellFormed(Flatten(child[c].emitted)) = "ok"
          /\ (wrote => code = "0")
       \/ /\ child[c].status = "errored"
          /\ code = LaunchErrno
          /\ ~wrote
    /\ promise' = [promise EXCEPT ![c] =
            Settle(@, IF code = "0" THEN Fulfilled(options[c].outputPath)
                      ELSE FFmpegFailed(code, stderr[c]))]
    /\ child' = [child EXCEPT ![c].status = "closed", ![c].exitCode = code]
    /\ files' = IF wrote THEN files \cup {options[c].outputPath} ELSE files
    /\ UNCHANGED <<pc, options, args, filterComplex, stderr, spawnCount>>
    /\ UNCHANGED nonRenderVars

\* Mutant: no 'error' listener settles the promise.
OnError_NoReject(c) ==
    /\ child[c].status = "failing"
    /\ child' = [child EXCEPT ![c].status = "errored"]
    /\ UNCHANGED <<pc, options, args, filterComplex, stderr, promise, spawnCount, files>>
    /\ UNCHANGED nonRenderVars

\* ffmpeg.on('error'): the binary could not be started.
OnError(c) ==
    /\ child[c].status = "failing"
    /\ promise' = [promise EXCEPT ![c] = Settle(@, SpawnError)]
    /\ child' = [child EXCEPT ![c].status = "errored"]
    /\ UNCHANGED <<pc, options, args, filterComplex, stderr, spawnCount, files>>
    /\ UNCHANGED nonRenderVars

\* The caller has the outcome and the child is gone: the call's closure is
\* garbage (renderMix keeps nothing between calls).
Return(c) ==
    /\ promise[c].state # "pending"
    /\ child[c].status \in {"none", "closed"}
    /\ pc' = [pc EXCEPT ![c] = "idle"]
    /\ options' = [options EXCEPT ![c] = NoOptions]
    /\ args' = [args EXCEPT ![c] = <<>>]
    /\ filterComplex' = [filterComplex EXCEPT ![c] = <<>>]
    /\ stderr' = [stderr EXCEPT ![c] = <<>>]
    /\ promise' = [promise EXCEPT ![c] = Pending]
    /\ child' = [child EXCEPT ![c] = NoChild]
    /\ spawnCount' = [spawnCount EXCEPT ![c] = 0]
    /\ UNCHANGED files
    /\ UNCHANGED nonRenderVars

\* ---------------------------------------------------------- probe actions
\* The Promise executor of a probe: spawn ffprobe and register the
\* stdout, stderr and 'close' listeners (no 'error' listener).
StartProbe(impl, filePath, launches) ==
    /\ probe.impl = "none"
    /\ ~uncaught
    /\ probe' = [impl |-> impl, filePath |-> filePath]
    /\ ffprobe' = [NoFfprobe EXCEPT !.status = IF launches THEN "running" ELSE "failing"]
    /\ output' = <<>>
    /\ error' = <<>>
    /\ probePromise' = ProbePending
    /\ UNCHANGED uncaught
    /\ UNCHANGED nonProbeVars

\* AudioProcessor.analyzeAudio(filePath)
AnalyzeAudio(filePath, launches) == StartProbe("analyzeAudio", filePath, launches)

\* analyzeAudioFile(filePath)
AnalyzeAudioFile(filePath, launches) == StartProbe("analyzeAudioFile", filePath, launches)

\* ffprobe.stdout.on('data'): output += data.toString()
OnStdoutData(data) ==
    /\ ffprobe.status = "running"
    /\ Len(ffprobe.out) < MaxChunks
    /\ output' = output \o data
    /\ ffprobe' = [ffprobe EXCEPT !.out = Append(@, data)]
    /\ UNCHANGED <<probe, error, probePromise, uncaught>>
    /\ UNCHANGED nonProbeVars

\* ffprobe.stderr.on('data'): error += data.toString()
OnProbeStderrData(data) ==
    /\ ffprobe.status = "running"
    /\ Len(ffprobe.err) < MaxChunks
    /\ error' = error \o BufferToString(data)
    /\ ffprobe' = [ffprobe EXCEPT !.err = Append(@, data)]
    /\ UNCHANGED <<probe, output, probePromise, uncaught>>
    /\ UNCHANGED nonProbeVars

\* Mutant: the output is parsed whatever the exit code.
AnalyzeAudioOnClose_ParseFirst(code, statOk) ==
    /\ probe.impl = "analyzeAudio"
    /\ ffprobe.status = "running"
    /\ code \in ExitCodes
    /\ probePromise' =
            Settle(probePromise,
                   IF code # "0" /\ ~JsonParse(output).ok THEN FFprobeFailed(error)
                   ELSE AnalyzeAudioResult(output, statOk))
    /\ ffprobe' = [ffprobe EXCEPT !.status = "closed", !.exitCode = code]
    /\ UNCHANGED <<probe, output, error, uncaught>>
    /\ UNCHANGED nonProbeVars

\* analyzeAudio: ffprobe.on('close')
AnalyzeAudioOnClose(code, statOk) ==
    /\ probe.impl = "analyzeAudio"
    /\ ffprobe.status = "running"
    /\ code \in ExitCodes
    /\ probePromise' =
            Settle(probePromise,
                   IF code # "0" THEN FFprobeFailed(error)
                   ELSE AnalyzeAudioResult(output, statOk))
    /\ ffprobe' = [ffprobe EXCEPT !.status = "closed", !.exitCode = code]
    /\ UNCHANGED <<probe, output, error, uncaught>>
    /\ UNCHANGED nonProbeVars

\* analyzeAudioFile: ffprobe.on('close')
AnalyzeAudioFileOnClose(code) ==
    /\ probe.impl = "analyzeAudioFile"
    /\ ffprobe.status = "running"
    /\ code \in ExitCodes
    /\ probePromise' =
            Settle(probePromise,
                   IF code = "0" THEN AnalyzeAudioFileResult(output)
                   ELSE FfprobeFailedWithCode(code, error))
    /\ ffprobe' = [ffprobe EXCEPT !.status = "closed", !.exitCode = code]
    /\ UNCHANGED <<probe, output, error, uncaught>>
    /\ UNCHANGED nonProbeVars

\* The 'error' event of a failed launch: the child has no 'error'
\* listener, so emit throws and the exception is uncaught (the server
\* process installs no uncaughtException handler).
OnProbeError ==
    /\ ffprobe.status = "failing"
    /\ uncaught' = TRUE
    /\ ffprobe' = [ffprobe EXCEPT !.status = "errored"]
    /\ UNCHANGED <<probe, output, error, probePromise>>
    /\ UNCHANGED nonProbeVars

\* The caller has the outcome: the call's closure is garbage.
ProbeReturn ==
    /\ probePromise.state # "pending"
    /\ ffprobe.status = "closed"
    /\ probe' = NoProbe
    /\ ffprobe' = NoFfprobe
    /\ output' = <<>>
    /\ error' = <<>>
    /\ probePromise' = ProbePending
    /\ UNCHANGED uncaught
    /\ UNCHANGED nonProbeVars

\* -------------------------------------------------------- mix job actions
\* createMixJob (the project exists): insert the queued document and
\* schedule processMixJob for it.
CreateMixJob(projectId, prompt) ==
    /\ Len(mixJobs) < MaxJobs
    /\ LET mine == {i \in DOMAIN mixJobs : mixJobs[i].projectId = projectId}
           latest == CHOOSE i \in mine : \A k \in mine : k <= i
           version == IF mine = {} THEN 1 ELSE mixJobs[latest].version + 1
           mixJobId == Len(mixJobs) + 1
       IN  /\ mixJobs' = Append(mixJobs, QueuedJob(projectId, prompt, version))
           /\ scheduled' = [scheduled EXCEPT ![mixJobId] = @ + 1]
           /\ reply' = Returned("createMixJob", 0, <<mixJobId>>)
    /\ UNCHANGED <<mixSuggestions, notifications, run>>
    /\ UNCHANGED nonJobVars

\* The scheduler starts processMixJob: the runQuery finds the job.
ProcessMixJob(j) ==
    /\ scheduled[j] > 0
    /\ run[j].pc = "none"
    /\ j \in DOMAIN mixJobs
    /\ scheduled' = [scheduled EXCEPT ![j] = @ - 1]
    /\ run' = [run EXCEPT ![j] = [NoRun EXCEPT !.pc = "begin"]]
    /\ UNCHANGED <<mixJobs, mixSuggestions, notifications, reply>>
    /\ UNCHANGED nonJobVars

\* runMutation(updateMixJobInternal, updates) by job j's run, which then
\* goes on at pc next.
SendUpdates(j, updates, next, phase) ==
    /\ mixJobs' = [mixJobs EXCEPT ![j] = Patch(@, updates)]
    /\ run' = [run EXCEPT ![j].updates = updates, ![j].pc = next, ![j].phase = phase]

\* "Update status to processing"
MarkProcessing(j) ==
    /\ run[j].pc = "begin"
    /\ SendUpdates(j, [NoUpdates EXCEPT !.status = <<"processing">>], "phase_start", 0)
    /\ UNCHANGED <<mixSuggestions, notifications, scheduled, reply>>
    /\ UNCHANGED nonJobVars

\* updatePhase(ctx, mixJobId, i, "processing", message)
PhaseStart(j) ==
    /\ run[j].pc = "phase_start"
    /\ SendUpdates(j, PhaseUpdates(mixJobs[j], run[j].phase, "processing",
                                   EnterMessage(run[j].phase), 0 - 1),
                   "phase_work", run[j].phase)
    /\ UNCHANGED <<mixSuggestions, notifications, scheduled, reply>>
    /\ UNCHANGED nonJobVars

\* The work of a phase: simulateProcessing for Analysis, Stem Processing
\* and Mastering; simulateAIMixing, which creates an "eq" and a
\* "compression" suggestion or not (Math.random); generateMockAudioFile
\* for Export.
PhaseWork(j, eq, compression) ==
    /\ run[j].pc = "phase_work"
    /\ run[j].phase # 2 => (~eq /\ ~compression)
    /\ mixSuggestions' =
            mixSuggestions \o (IF eq THEN <<Suggestion(j, "eq")>> ELSE <<>>)
                           \o (IF compression THEN <<Suggestion(j, "compression")>> ELSE <<>>)
    /\ run' = [run EXCEPT ![j].pc = "phase_finish",
                          ![j].resultFileId = IF run[j].phase = 4 THEN <<MockAudioFileId>> ELSE @]
    /\ UNCHANGED <<mixJobs, notifications, scheduled, reply>>
    /\ UNCHANGED nonJobVars

\* updatePhase(ctx, mixJobId, i, "completed", message, 100)
PhaseFinish(j) ==
    /\ run[j].pc = "phase_finish"
    /\ SendUpdates(j, PhaseUpdates(mixJobs[j], run[j].phase, "completed",
                                   LeaveMessage(run[j].phase), 100),
                   IF run[j].phase = 4 THEN "final" ELSE "phase_start",
                   IF run[j].phase = 4 THEN 4 ELSE run[j].phase + 1)
    /\ UNCHANGED <<mixSuggestions, notifications, scheduled, reply>>
    /\ UNCHANGED nonJobVars

\* "Update final status"
FinalUpdate(j) ==
    /\ run[j].pc = "final"
    /\ SendUpdates(j, [NoUpdates EXCEPT !.status = <<"completed">>, !.progress = <<100>>,
                                        !.resultFileId = run[j].resultFileId,
                                        !.analysed = <<TRUE>>],
                   "notify_complete", run[j].phase)
    /\ UNCHANGED <<mixSuggestions, notifications, scheduled, reply>>
    /\ UNCHANGED nonJobVars

\* "Create notification" (mix_complete)
NotifyComplete(j) ==
    /\ run[j].pc = "notify_complete"
    /\ notifications' =
            Append(notifications,
                   Notification("mix_complete", "Mix Complete",
                                <<"Your mix \"", Substring(mixJobs[j].prompt), "...\" is ready!">>, j))
    /\ run' = [run EXCEPT ![j].pc = "done"]
    /\ UNCHANGED <<mixJobs, mixSuggestions, scheduled, reply>>
    /\ UNCHANGED nonJobVars

\* An awaited ctx call inside the try block rejects: control goes to the
\* catch block.  (The timers of simulateProcessing and
\* generateMockAudioFile make no ctx call.)
Throw(j, e) ==
    /\ \/ run[j].pc \in {"begin", "phase_start", "phase_finish", "final", "notify_complete"}
       \/ run[j].pc = "phase_work" /\ run[j].phase = 2
    /\ run' = [run EXCEPT ![j].pc = "catch", ![j].thrown = e]
    /\ UNCHANGED <<mixJobs, mixSuggestions, notifications, scheduled, reply>>
    /\ UNCHANGED nonJobVars

\* Mutant: the catch block reports a fixed message.
CatchUpdate_Generic(j) ==
    /\ run[j].pc = "catch"
    /\ SendUpdates(j, [NoUpdates EXCEPT !.status = <<"failed">>,
                                        !.error = <<"Unknown error occurred">>],
                   "catch_notify", run[j].phase)
    /\ UNCHANGED <<mixSuggestions, notifications, scheduled, reply>>
    /\ UNCHANGED nonJobVars

\* catch (error): "Handle error"
CatchUpdate(j) ==
    /\ run[j].pc = "catch"
    /\ SendUpdates(j, [NoUpdates EXCEPT !.status = <<"failed">>,
                                        !.error = <<ErrorMessage(run[j].thrown)>>],
                   "catch_notify", run[j].phase)
    /\ UNCHANGED <<mixSuggestions, notifications, scheduled, reply>>
    /\ UNCHANGED nonJobVars

\* The notification of the catch block (mix_failed).
NotifyFailed(j) ==
    /\ run[j].pc = "catch_notify"
    /\ notifications' =
            Append(notifications,
                   Notification("mix_failed", "Mix Failed",
                                <<"There was an error processing your mix: ",
                                  ErrorMessageShort(run[j].thrown)>>, j))
    /\ run' = [run EXCEPT ![j].pc = "done"]
    /\ UNCHANGED <<mixJobs, mixSuggestions, scheduled, reply>>
    /\ UNCHANGED nonJobVars

\* A ctx call of the catch block rejects: processMixJob itself rejects.
CatchThrow(j, e) ==
    /\ run[j].pc \in {"catch", "catch_notify"}
    /\ run' = [run EXCEPT ![j].pc = "rejected", ![j].thrown = e]
    /\ UNCHANGED <<mixJobs, mixSuggestions, notifications, scheduled, reply>>
    /\ UNCHANGED nonJobVars

\* createMixVersion: a new job of the parent's project, numbered after the
\* project's latest job, and scheduled.
CreateMixVersion(parentMixJobId, prompt) ==
    IF parentMixJobId \notin DOMAIN mixJobs
    THEN /\ reply' = Threw("createMixVersion", parentMixJobId, "Parent mix job not found")
         /\ UNCHANGED <<mixJobs, mixSuggestions, notifications, scheduled, run>>
         /\ UNCHANGED nonJobVars
    ELSE /\ Len(mixJobs) < MaxJobs + MaxDerived
         /\ LET parentMix == mixJobs[parentMixJobId]
                mine == {i \in DOMAIN mixJobs : mixJobs[i].projectId = parentMix.projectId}
                latest == CHOOSE i \in mine : \A k \in mine : k <= i
                version == IF mine = {} THEN 1 ELSE mixJobs[latest].version + 1
                mixJobId == Len(mixJobs) + 1
            IN  /\ mixJobs' = Append(mixJobs, DerivedJob(parentMix.projectId, prompt, version,
                                                         parentMixJobId))
                /\ scheduled' = [scheduled EXCEPT ![mixJobId] = @ + 1]
                /\ reply' = Returned("createMixVersion", parentMixJobId, <<mixJobId>>)
         /\ UNCHANGED <<mixSuggestions, notifications, run>>
         /\ UNCHANGED nonJobVars

\* Mutant: the applied flag is not looked at.
ApplySuggestion_Unchecked(suggestionId) ==
    IF suggestionId \notin DOMAIN mixSuggestions
    THEN /\ reply' = Threw("applySuggestion", suggestionId, "Suggestion not found")
         /\ UNCHANGED <<mixJobs, mixSuggestions, notifications, scheduled, run>>
         /\ UNCHANGED nonJobVars
    ELSE LET suggestion == mixSuggestions[suggestionId]
         IN  /\ mixSuggestions' = [mixSuggestions EXCEPT ![suggestionId].applied = TRUE]
             /\ IF suggestion.mixJobId \in DOMAIN mixJobs
                THEN LET baseMix == mixJobs[suggestion.mixJobId]
                         newPrompt == NewPrompt(baseMix.prompt, Description(suggestion.type))
                     IN  /\ Len(mixJobs) < MaxJobs + MaxDerived
                         /\ mixJobs' = Append(mixJobs,
                                              DerivedJob(baseMix.projectId, newPrompt,
                                                         baseMix.version + 1, suggestion.mixJobId))
                         /\ reply' = Returned("applySuggestion", suggestionId,
                                              <<Len(mixJobs) + 1>>)
                ELSE /\ reply' = Returned("applySuggestion", suggestionId, <<>>)
                     /\ UNCHANGED mixJobs
             /\ UNCHANGED <<notifications, scheduled, run>>
             /\ UNCHANGED nonJobVars

\* applySuggestion: throws for a missing or an applied suggestion; else
\* marks it applied and, when its base mix exists, inserts a queued job
\* numbered after the base mix (it schedules nothing).
ApplySuggestion(suggestionId) ==
    IF suggestionId \notin DOMAIN mixSuggestions
    THEN /\ reply' = Threw("applySuggestion", suggestionId, "Suggestion not found")
         /\ UNCHANGED <<mixJobs, mixSuggestions, notifications, scheduled, run>>
         /\ UNCHANGED nonJobVars
    ELSE LET suggestion == mixSuggestions[suggestionId]
         IN  IF suggestion.applied
             THEN /\ reply' = Threw("applySuggestion", suggestionId,
                                    "Suggestion has already been applied")
                  /\ UNCHANGED <<mixJobs, mixSuggestions, notifications, scheduled, run>>
                  /\ UNCHANGED nonJobVars
             ELSE /\ mixSuggestions' = [mixSuggestions EXCEPT ![suggestionId].applied = TRUE]
                  /\ IF suggestion.mixJobId \in DOMAIN mixJobs
                     THEN LET baseMix == mixJobs[suggestion.mixJobId]
                              newPrompt == NewPrompt(baseMix.prompt, Description(suggestion.type))
                          IN  /\ Len(mixJobs) < MaxJobs + MaxDerived
                              /\ mixJobs' = Append(mixJobs,
                                                   DerivedJob(baseMix.projectId, newPrompt,
                                                              baseMix.version + 1,
                                                              suggestion.mixJobId))
                              /\ reply' = Returned("applySuggestion", suggestionId,
                                                   <<Len(mixJobs) + 1>>)
                     ELSE /\ reply' = Returned("applySuggestion", suggestionId, <<>>)
                          /\ UNCHANGED mixJobs
                  /\ UNCHANGED <<notifications, scheduled, run>>
                  /\ UNCHANGED nonJobVars

\* --------------------------------------------------------- specifications
OthersIdle(c) == \A d \in Calls \ {c} : pc[d] = "idle"

\* Spec: the life of a render call, one call at a time, over the jobs of
\* RenderJobs, with everything the child process can do.
Submit(c) == OthersIdle(c) /\ \E opts \in RenderJobs : RenderMix(c, opts)
Mkdir(c) == MkdirRejected(c) \/ \E launches \in BOOLEAN : MkdirResolved(c, launches)
Stderr(c) == \E data \in ChunkPool : OnStderrData(c, data)
Close(c) == \E code \in ExitCodes \cup {LaunchErrno}, wrote \in BOOLEAN : OnClose(c, code, wrote)

Next ==
    \E c \in Calls :
        \/ Submit(c)
        \/ Mkdir(c)
        \/ Stderr(c)
        \/ OnError(c)
        \/ Close(c)
        \/ Return(c)

Spec == Init /\ [][Next]_vars

\* SpecBuild: argument and graph assembly over every job of BuildJobs.  The
\* engine starts, writes nothing to stderr and exits with 0 (leaving the
\* file) or 1.  A caller may submit a job again, with the same stems,
\* while the first call's result is still at hand.
SubmitBuild(c) == OthersIdle(c) /\ \E opts \in BuildJobs : RenderMix(c, opts)
Resubmit(c) ==
    \E d \in Calls \ {c} :
        /\ pc[d] = "spawned" /\ child[d].status = "closed"
        /\ \A e \in Calls \ {c, d} : pc[e] = "idle"
        /\ RenderMix(c, options[d])
Assemble(c) == MkdirResolved(c, TRUE)
Exit(c) == \E code \in {"0", "1"} : OnClose(c, code, code = "0")

NextBuild ==
    \E c \in Calls :
        \/ SubmitBuild(c)
        \/ Resubmit(c)
        \/ Assemble(c)
        \/ Exit(c)
        \/ Return(c)

SpecBuild == Init /\ [][NextBuild]_vars

\* SpecOverlap: callers do not wait for one another (renderMix is an async
\* function called from request handlers): a call may be submitted while
\* others are under way.  The engine starts and exits with 0 or 1.
SubmitAny(c) == \E opts \in OverlapJobs : RenderMix(c, opts)

NextOverlap ==
    \E c \in Calls :
        \/ SubmitAny(c)
        \/ Assemble(c)
        \/ Exit(c)
        \/ Return(c)

SpecOverlap == Init /\ [][NextOverlap]_vars

\* SpecConcurrent: two calls with different output paths under way at the
\* same time, each with its own engine, which may fail to start, write
\* whole-character stderr chunks and exit with any code, in any order.
TwoCalls == {1, 2}
WholeChunks == {chunk \in ChunkPool : WellFormed(chunk) = "ok"}
SubmitOther(c) ==
    \E opts \in OverlapJobs :
        /\ \A d \in Calls \ {c} : pc[d] # "idle" => options[d].outputPath # opts.outputPath
        /\ RenderMix(c, opts)
StderrWhole(c) == \E data \in WholeChunks : OnStderrData(c, data)

NextConcurrent ==
    \E c \in TwoCalls :
        \/ SubmitOther(c)
        \/ Mkdir(c)
        \/ StderrWhole(c)
        \/ OnError(c)
        \/ Close(c)
        \/ Return(c)

SpecConcurrent == Init /\ [][NextConcurrent]_vars

\* SpecProbe: the life of a metadata probe, by either implementation.
\* ffprobe may print any sequence of stdout chunks and exit with any code.
Probe == \E filePath \in ProbeFiles, launches \in BOOLEAN :
            AnalyzeAudio(filePath, launches) \/ AnalyzeAudioFile(filePath, launches)
ProbeStdout == \E data \in StdoutPool : OnStdoutData(data)
ProbeStderr == \E data \in ProbeStderrPool : OnProbeStderrData(data)
ProbeClose ==
    \/ \E code \in ExitCodes, statOk \in BOOLEAN : AnalyzeAudioOnClose(code, statOk)
    \/ \E code \in ExitCodes : AnalyzeAudioFileOnClose(code)

NextProbe ==
    \/ Probe
    \/ ProbeStdout
    \/ ProbeStderr
    \/ ProbeClose
    \/ OnProbeError
    \/ ProbeReturn

SpecProbe == Init /\ [][NextProbe]_vars

\* SpecJob: mix jobs are created and processed; any ctx call of
\* processMixJob may reject.
Create == \E projectId \in Projects, prompt \in Prompts : CreateMixJob(projectId, prompt)
Work(j) == \E eq, compression \in BOOLEAN : PhaseWork(j, eq, compression)
Fail(j) == \E e \in ThrownErrors : Throw(j, e)
FailAgain(j) == \E e \in ThrownErrors : CatchThrow(j, e)

NextJob ==
    \/ Create
    \/ \E j \in JobIds :
        \/ ProcessMixJob(j)
        \/ MarkProcessing(j)
        \/ PhaseStart(j)
        \/ Work(j)
        \/ PhaseFinish(j)
        \/ FinalUpdate(j)
        \/ NotifyComplete(j)
        \/ Fail(j)
        \/ CatchUpdate(j)
        \/ NotifyFailed(j)
        \/ FailAgain(j)

SpecJob == Init /\ [][NextJob]_vars

\* SpecVersions: jobs are created by createMixJob, createMixVersion and
\* applySuggestion and processed one at a time by runs in which no ctx
\* call rejects; the public mutations are called between runs.
Quiet == \A j \in JobIds : run[j].pc \in {"none", "done"}
NewVersion ==
    Quiet /\ \E parentMixJobId \in JobIds, prompt \in Prompts :
                CreateMixVersion(parentMixJobId, prompt)
Apply ==
    Quiet /\ \E suggestionId \in 1..(Len(mixSuggestions) + 1) : ApplySuggestion(suggestionId)
RunStep(j) ==
    /\ \A k \in JobIds \ {j} : run[k].pc \in {"none", "done"}
    /\ \/ ProcessMixJob(j)
       \/ MarkProcessing(j)
       \/ PhaseStart(j)
       \/ Work(j)
       \/ PhaseFinish(j)
       \/ FinalUpdate(j)
       \/ NotifyComplete(j)

NextVersions ==
    \/ Quiet /\ Create
    \/ NewVersion
    \/ Apply
    \/ \E j \in JobIds : RunStep(j)

SpecVersions == Init /\ [][NextVersions]_vars

\* SpecApply: as SpecVersions, without createMixVersion: the suggestions
\* of the processed jobs are applied, each call any number of times.
NextApply ==
    \/ Quiet /\ Create
    \/ Apply
    \/ \E j \in JobIds : RunStep(j)

SpecApply == Init /\ [][NextApply]_vars

\* ================================================================ claims
\* ------------------------------------------------- reading the outcome
\* The spec's outcome kinds, by the statement of renderMix that settles
\* the promise.
Kind(p) ==
    CASE p.state = "pending" -> "Pending"
      [] p.state = "fulfilled" -> "Success"
      [] p.error = "FFmpeg failed with code" -> "EngineFailure"
      [] p.error = "spawn ENOENT" -> "LaunchFailure"
      [] OTHER -> "DirectoryFailure"

Started(c) == pc[c] \in {"mkdir", "spawned", "threw"}
Built(c) == pc[c] = "spawned"

\* ------------------------------------------------- reading the graph
Count(seq, x) == Cardinality({i \in DOMAIN seq : seq[i] = x})
IndexOf(seq, x) == IF \E i \in DOMAIN seq : seq[i] = x
                   THEN CHOOSE i \in DOMAIN seq : seq[i] = x /\ \A j \in 1..(i - 1) : seq[j] # x
                   ELSE 0

RECURSIVE Statements(_)
\* The filter statements of a graph: the token runs between ";".
Statements(tokens) ==
    LET k == IndexOf(tokens, ";")
    IN  IF k = 0 THEN <<tokens>>
        ELSE <<SubSeq(tokens, 1, k - 1)>> \o Statements(SubSeq(tokens, k + 1, Len(tokens)))

\* The decimal numerals the graphs of the model carry, in units of 1/Unity.
Decimal(s) ==
    CASE s = "0" -> 0 [] s = "0.25" -> 1 [] s = "0.5" -> 2 [] s = "0.75" -> 3
      [] s = "1" -> 4 [] s = "1.25" -> 5 [] s = "1.5" -> 6 [] s = "1.75" -> 7
      [] s = "2" -> 8 [] OTHER -> 0 - 1

\* The statement that reads input stream i (0-based), or <<>>.
ChainOf(tokens, i) ==
    LET stmts == Statements(tokens)
        hits == {k \in DOMAIN stmts : stmts[k] # <<>> /\ stmts[k][1] = "[" \o ToString(i) \o ":a]"}
    IN  IF hits = {} THEN <<>> ELSE stmts[CHOOSE k \in hits : TRUE]

\* <<left, right>> channel gains a chain applies: those of its pan
\* filter, unity on both channels when it has none.
ChannelGains(chain) ==
    LET k == IndexOf(chain, ",pan=stereo|FL=")
    IN  IF k = 0 THEN <<Unity, Unity>>
        ELSE <<Decimal(chain[k + 1]), Decimal(chain[k + 3])>>

\* The statements that consume a label as their first input.
Consumers(tokens, label) ==
    LET stmts == Statements(tokens)
    IN  {k \in DOMAIN stmts : stmts[k] # <<>> /\ stmts[k][1] = label}

\* The UTF-8 bytes a string of code points stands for.
RECURSIVE Utf8Bytes(_)
Utf8Bytes(text) ==
    IF text = <<>> THEN <<>>
    ELSE LET cp == Head(text)
             bytes == IF cp < 128 THEN <<cp>>
                      ELSE IF cp < 2048 THEN <<192 + (cp \div 64), 128 + (cp % 64)>>
                      ELSE <<224 + (cp \div 4096), 128 + ((cp \div 64) % 64), 128 + (cp % 64)>>
         IN  bytes \o Utf8Bytes(Tail(text))

\* The effect kinds of the supported set (volume/gain and stereo pan).
SupportedEffects == {"volume", "gain", "pan"}

HasUnsupportedEffect(stems) ==
    \E i \in DOMAIN stems : \E k \in DOMAIN stems[i].effects : stems[i].effects[k] \notin SupportedEffects

\* ------------------------------------------------------------------- C1
\* C1: a call with an empty stem list produces no graph text and no
\* argument list and never spawns a render subprocess.
C1_EmptyStemListFails ==
    \A c \in Calls :
        (Started(c) /\ options[c].stems = <<>>) =>
            (spawnCount[c] = 0 /\ filterComplex[c] = <<>> /\ args[c] = <<>>)

\* ------------------------------------------------------------------- C2
\* C2: a call one of whose stems carries an effect outside the supported
\* set never spawns a subprocess.
C2_UnsupportedEffectFails ==
    \A c \in Calls :
        (Started(c) /\ HasUnsupportedEffect(options[c].stems)) => spawnCount[c] = 0

\* ------------------------------------------------------------------- C3
\* C3: after the subprocess exited with code 0 the call succeeded exactly
\* when a file exists at outputPath (otherwise it is a failure).
C3_SuccessOnlyWithFile ==
    \A c \in Calls :
        (child[c].status = "closed" /\ child[c].exitCode = "0") =>
            (Kind(promise[c]) = "Success" <=> options[c].outputPath \in files)

\* ------------------------------------------------------------------- C4
\* C4: after a non-zero exit the call failed with EngineFailure and its
\* diagnostic text is, byte for byte, what the subprocess wrote to stderr.
C4_StderrVerbatim ==
    \A c \in Calls :
        (child[c].status = "closed" /\ child[c].exitCode = "1") =>
            /\ Kind(promise[c]) = "EngineFailure"
            /\ Utf8Bytes(promise[c].text) = Flatten(child[c].emitted)

\* ------------------------------------------------------------------- C5
\* C5: once the 'error' event of a failed launch has been dispatched the
\* call is settled as LaunchFailure (it is not pending), and the 'close'
\* that follows leaves it so.
C5_LaunchFailureReported ==
    \A c \in Calls :
        (\/ child[c].status = "errored"
         \/ child[c].status = "closed" /\ child[c].exitCode = LaunchErrno)
            => Kind(promise[c]) = "LaunchFailure"

C5_Witness ==
    \E c \in Calls :
        /\ child[c].status = "closed" /\ child[c].exitCode = LaunchErrno
        /\ spawnCount[c] = 1
        /\ promise[c] = SpawnError

\* ------------------------------------------------------------------- C6
\* C6: in every built graph the channel gains of stem i's chain are
\* left = 1 if p <= 0 else 1 - p and right = 1 if p >= 0 else 1 + p for
\* that stem's pan p.
C6_PanLaw ==
    \A c \in Calls :
        Built(c) =>
            \A i \in DOMAIN options[c].stems :
                LET p == options[c].stems[i].pan
                    chain == ChainOf(filterComplex[c], i - 1)
                IN  /\ chain # <<>>
                    /\ ChannelGains(chain) = <<IF p <= 0 THEN Unity ELSE Unity - p,
                                               IF p >= 0 THEN Unity ELSE Unity + p>>

\* A graph with a hard-right, a hard-left and a centred stem chain.
C6_Witness ==
    \E c \in Calls :
        /\ Built(c)
        /\ \E i, j \in DOMAIN options[c].stems :
            /\ options[c].stems[i].pan = Unity
            /\ ChannelGains(ChainOf(filterComplex[c], i - 1)) = <<0, Unity>>
            /\ options[c].stems[j].pan = 0 - Unity
            /\ ChannelGains(ChainOf(filterComplex[c], j - 1)) = <<Unity, 0>>

C9_MultiStemMix ==
    \A c \in Calls :
        (Built(c) /\ Len(options[c].stems) >= 2) =>
            LET n == Len(options[c].stems)
                g == filterComplex[c]
                stmts == Statements(g)
                label(i) == stmts[i][Len(stmts[i])]
            IN  /\ Len(stmts) = n + 1
                /\ \A i \in 1..n : stmts[i] = ChainOf(g, i - 1) /\ stmts[i] # <<>>
                /\ \A i, j \in 1..n : i # j => label(i) # label(j)
                /\ Count(g, "amix=inputs=") = 1
                /\ Len(stmts[n + 1]) = n + 4
                /\ \A i \in 1..n : stmts[n + 1][i] = label(i)
                /\ SubSeq(stmts[n + 1], n + 1, n + 4)
                       = <<"amix=inputs=", ToString(n), ":duration=longest", "[out]">>
                /\ Count(g, "[out]") = 1

C9_Witness ==
    \E c \in Calls :
        /\ Built(c)
        /\ Len(options[c].stems) = MaxStems
        /\ Count(filterComplex[c], "amix=inputs=") = 1

\* ------------------------------------------------------------------ C10
\* C10 as claimed: the inputs come first, nothing precedes them, and the
\* list ends with the overwrite flag and the destination path.
C10_InputsFirstOverwriteLast ==
    \A c \in Calls :
        (Built(c) /\ options[c].stems # <<>>) =>
            LET a == args[c]
                n == Len(options[c].stems)
            IN  /\ \A i \in 1..n : a[2 * i - 1] = "-i" /\ a[2 * i] = options[c].stems[i].filePath
                /\ a[2 * n + 1] = "-filter_complex"
                /\ a[Len(a) - 1] = "-y"
                /\ a[Len(a)] = options[c].outputPath

\* C10 as amended: the overwrite flag is the first argument; then the
\* inputs in stem order, -filter_complex <graph>, -map [out],
\* -ar <sampleRate>, the format flags, and the destination path last.
C10_ArgumentOrder ==
    \A c \in Calls :
        (Built(c) /\ options[c].stems # <<>>) =>
            LET a == args[c]
                n == Len(options[c].stems)
                flags == SubSeq(a, 2 * n + 8, Len(a) - 1)
            IN  /\ Len(a) >= 2 * n + 8
                /\ a[1] = "-y"
                /\ Count(a, "-y") = 1
                /\ \A i \in 1..n : a[2 * i] = "-i" /\ a[2 * i + 1] = options[c].stems[i].filePath
                /\ Count(a, "-i") = n
                /\ a[2 * n + 2] = "-filter_complex"
                /\ a[2 * n + 3] = Text(filterComplex[c])
                /\ a[2 * n + 4] = "-map"
                /\ a[2 * n + 5] = "[out]"
                /\ a[2 * n + 6] = "-ar"
                /\ a[2 * n + 7] = ToString(options[c].settings.sampleRate)
                /\ \A k \in DOMAIN flags : flags[k] \notin {"-i", "-filter_complex", "-map", "-ar"}
                /\ a[Len(a)] = options[c].outputPath

C10_Witness ==
    \E c \in Calls :
        /\ Built(c)
        /\ Len(options[c].stems) = MaxStems
        /\ options[c].stems[1].filePath # options[c].stems[2].filePath
        /\ options[c].settings.format = "wav"
        /\ args[c][1] = "-y"

\* ------------------------------------------------------------------ C11
\* The arguments between the sample rate and the destination path.
FormatFlags(a) == SubSeq(a, IndexOf(a, "-ar") + 2, Len(a) - 1)

\* C11: the codec flags of a built argument list follow the container
\* format alone: wav carries -acodec pcm_s<bitDepth>le and no bitrate, mp3
\* carries -b:a 320k and no codec, every other container carries neither.
C11_CodecFlagsByContainer ==
    \A c \in Calls :
        Built(c) =>
            LET a == args[c]
                st == options[c].settings
                flags == FormatFlags(a)
                k == IndexOf(flags, "-acodec")
                b == IndexOf(flags, "-b:a")
            IN  /\ Count(a, "-acodec") = Count(flags, "-acodec")
                /\ Count(a, "-b:a") = Count(flags, "-b:a")
                /\ st.format = "wav" =>
                        /\ Count(flags, "-acodec") = 1
                        /\ k < Len(flags)
                        /\ flags[k + 1] = "pcm_s" \o ToString(st.bitDepth) \o "le"
                        /\ b = 0
                /\ st.format = "mp3" =>
                        /\ Count(flags, "-b:a") = 1
                        /\ b < Len(flags)
                        /\ flags[b + 1] = "320k"
                        /\ k = 0
                /\ st.format \notin {"wav", "mp3"} => (k = 0 /\ b = 0)

\* A flac job was assembled, and its arguments end right after the rate.
C11_Witness ==
    \E c \in Calls :
        /\ Built(c)
        /\ options[c].settings.format = "flac"
        /\ options[c].stems # <<>>
        /\ FormatFlags(args[c]) = <<>>
        /\ args[c][Len(args[c]) - 1] = ToString(options[c].settings.sampleRate)

\* ------------------------------------------------------------------ C12
\* C12: a call never spawns a second subprocess: its spawn count is at
\* most one at every moment, and exactly one once its subprocess has
\* produced an outcome of any kind.
C12_NoRetry ==
    \A c \in Calls :
        /\ spawnCount[c] <= 1
        /\ child[c].status \in {"errored", "closed"} => spawnCount[c] = 1

\* A call failed with a non-zero exit and has spawned once.
C12_Witness ==
    \E c \in Calls :
        /\ child[c].status = "closed" /\ child[c].exitCode = "1"
        /\ Kind(promise[c]) = "EngineFailure"
        /\ spawnCount[c] = 1

\* ------------------------------------------------------------------ C13
InFlight(c) == child[c].status = "running"

\* C13: two calls whose subprocesses run at the same moment name
\* different output paths.
C13_OneInFlightPerPath ==
    \A c, d \in Calls :
        (c # d /\ InFlight(c) /\ InFlight(d)) => options[c].outputPath # options[d].outputPath

\* ------------------------------------------------------------------ C14
\* The settings the render engine can realize: a PCM bit depth of 16, 24
\* or 32.
Realizable(settings) == settings.bitDepth \in {16, 24, 32}

\* C14: a call whose settings are not realizable never spawns a
\* subprocess.
C14_UnrealizableFailsFast ==
    \A c \in Calls :
        (Started(c) /\ ~Realizable(options[c].settings)) => spawnCount[c] = 0

\* ------------------------------------------------- reading the probe
\* The spec's outcome kinds of inspect, by the statement that settles the
\* probe's promise.
ProbeKind(p) ==
    CASE p.state = "pending" -> "Pending"
      [] p.state = "fulfilled" -> "Metadata"
      [] p.error \in {"FFprobe failed", "ffprobe failed with code"} -> "ProbeFailure"
      [] OTHER -> "MetadataParseFailure"

AudioTexts == {AacStream, FlacStream, Mp3Stream}

\* The stream objects the probe printed, in probe order.
PrintedStreams(text) == SelectSeq(text, LAMBDA tok : tok \in StreamTexts)

HasAudioStream(text) == \E i \in DOMAIN text : text[i] \in AudioTexts

\* The first printed stream of type audio.
FirstAudio(text) ==
    LET printed == PrintedStreams(text)
        k == CHOOSE i \in DOMAIN printed :
                /\ printed[i] \in AudioTexts
                /\ \A j \in 1..(i - 1) : printed[j] \notin AudioTexts
    IN  StreamValue(printed[k])

ProbeClosedWith(codes) == ffprobe.status = "closed" /\ ffprobe.exitCode \in codes

\* ------------------------------------------------------------------ C15
\* C15: after the probe exited with 0 on output that is not well-formed
\* JSON or has no audio stream, the call failed with MetadataParseFailure:
\* no metadata record was returned and no exception went uncaught.
C15_NoAudioIsParseFailure ==
    (ProbeClosedWith({"0"}) /\ (~JsonParse(output).ok \/ ~HasAudioStream(output))) =>
        /\ ProbeKind(probePromise) = "MetadataParseFailure"
        /\ probePromise.value = <<>>
        /\ ~uncaught

\* ------------------------------------------------------------------ C16
\* C16: after the probe exited with a non-zero code (or on a signal) the
\* call failed with ProbeFailure and returned no record, whatever stdout
\* carried.
C16_NonZeroExitIsProbeFailure ==
    ProbeClosedWith(ExitCodes \ {"0"}) =>
        /\ ProbeKind(probePromise) = "ProbeFailure"
        /\ probePromise.value = <<>>

\* The probe printed a complete document with an audio stream and then
\* exited with 1.
C16_Witness ==
    /\ ProbeClosedWith({"1"})
    /\ probe.impl = "analyzeAudio"
    /\ JsonParse(output).ok
    /\ JsonParse(output).format # <<>>
    /\ HasAudioStream(output)
    /\ probePromise.state = "rejected"

\* ------------------------------------------------------------------ C17
\* C17: the record analyzeAudio returns carries the codec, sample rate and
\* channel count of the first printed audio stream, and its bit depth is
\* 16 when that stream has no bits_per_sample (the stream's own value
\* when it has a non-zero one).
C17_FirstAudioStream ==
    (probe.impl = "analyzeAudio" /\ probePromise.state = "fulfilled") =>
        LET m == probePromise.value[1]
            first == FirstAudio(output)
        IN  /\ HasAudioStream(output)
            /\ m.codec = first.codec_name
            /\ first.sample_rate # <<>> => m.sampleRate = ParseInt(first.sample_rate[1])
            /\ first.channels # <<>> => m.channels = first.channels[1]
            /\ first.bits_per_sample = <<>> => m.bitDepth = 16
            /\ (first.bits_per_sample # <<>> /\ first.bits_per_sample[1] # 0) =>
                    m.bitDepth = first.bits_per_sample[1]

\* A video stream came first, then an audio stream without
\* bits_per_sample, then one with 24 bits.
C17_Witness ==
    /\ probe.impl = "analyzeAudio"
    /\ probePromise.state = "fulfilled"
    /\ PrintedStreams(output) = <<VideoStream, AacStream, FlacStream>>
    /\ probePromise.value[1].bitDepth = 16
    /\ probePromise.value[1].codec = <<"aac">>

\* ------------------------------------------------------------------ C19
\* C19: after the subprocess was ended by a signal (close with code null)
\* the call is an EngineFailure that carries the code and the stderr text,
\* as after a non-zero exit.
C19_SignalIsEngineFailure ==
    \A c \in Calls :
        (child[c].status = "closed" /\ child[c].exitCode = "null") =>
            /\ Kind(promise[c]) = "EngineFailure"
            /\ promise[c] = FFmpegFailed("null", stderr[c])

C19_Witness ==
    \E c \in Calls :
        /\ child[c].status = "closed" /\ child[c].exitCode = "null"
        /\ stderr[c] # <<>>
        /\ promise[c].state = "rejected"
        /\ promise[c].text = stderr[c]

\* ------------------------------------------------------------------ C20
\* C20: while the directory creation is awaited nothing is built and
\* nothing is spawned; a spawned subprocess finds the graph and the
\* argument list built, the graph inside the list; after a failed
\* directory creation nothing was spawned and the call is rejected with
\* that very failure.
C20_StrictlySequential ==
    \A c \in Calls :
        /\ pc[c] = "mkdir" =>
                (spawnCount[c] = 0 /\ args[c] = <<>> /\ filterComplex[c] = <<>>
                    /\ child[c] = NoChild /\ promise[c] = Pending)
        /\ spawnCount[c] > 0 =>
                /\ pc[c] = "spawned"
                /\ filterComplex[c] = BuildFilterComplex(options[c].stems)
                /\ Count(args[c], Text(filterComplex[c])) = 1
                /\ args[c][Len(args[c])] = options[c].outputPath
        /\ pc[c] = "threw" =>
                (spawnCount[c] = 0 /\ child[c] = NoChild /\ args[c] = <<>>
                    /\ promise[c] = MkdirError)

\* The directory creation failed and the caller holds its error.
C20_Witness ==
    \E c \in Calls :
        /\ pc[c] = "threw"
        /\ promise[c] = MkdirError
        /\ options[c].stems # <<>>

RECURSIVE Decoded(_)
Decoded(chunks) ==
    IF chunks = <<>> THEN <<>> ELSE BufferToString(Head(chunks)) \o Decoded(Tail(chunks))

\* The outcome the call's own subprocess events call for.
OwnOutcome(c) ==
    IF "errored" = child[c].status \/ child[c].exitCode = LaunchErrno THEN SpawnError
    ELSE IF child[c].status # "closed" THEN Pending
    ELSE IF child[c].exitCode = "0" THEN Fulfilled(options[c].outputPath)
    ELSE FFmpegFailed(child[c].exitCode, Decoded(child[c].emitted))

\* C21: with two calls on different output paths under way at once, in
\* every interleaving of their subprocess events each call's collected
\* stderr is the text of its own subprocess's chunks and its outcome is
\* the one its own subprocess's exit calls for.
C21_ConcurrentCallsIndependent ==
    \A c \in Calls :
        pc[c] = "spawned" =>
            /\ stderr[c] = Decoded(child[c].emitted)
            /\ promise[c] = OwnOutcome(c)

C21_Witness ==
    /\ pc[1] = "spawned" /\ pc[2] = "spawned"
    /\ options[1].outputPath # options[2].outputPath
    /\ child[1].emitted = <<<<97>>>>
    /\ child[2].emitted = <<<<195, 169>>, <<97>>>>
    /\ promise[1] = FFmpegFailed("1", <<97>>)
    /\ promise[2] = Fulfilled(options[2].outputPath)

\* ----------------------------------------------------------------- C22
\* C22: in every built graph the volume multiplier of stem i's chain is
\* that stem's gain, for every gain >= 0, the gain 0 included.
C22_GainVerbatim ==
    \A c \in Calls :
        Built(c) =>
            \A i \in DOMAIN options[c].stems :
                LET chain == ChainOf(filterComplex[c], i - 1)
                IN  /\ Len(chain) >= 3
                    /\ chain[2] = "volume="
                    /\ Decimal(chain[3]) = options[c].stems[i].volume

\* ----------------------------------------------------------------- C23
\* C23: once the 'error' event of a probe whose binary could not be
\* started has been dispatched, the probe's promise is rejected and the
\* event was handled (no exception went uncaught).
C23_ProbeLaunchFailureReported ==
    ffprobe.status = "errored" => (probePromise.state = "rejected" /\ ~uncaught)

\* ----------------------------------------------------------------- C24
\* C24 as claimed: a call has an outcome only after its subprocess has
\* emitted 'close' or 'error', and that outcome is the one the first of
\* these events calls for (the launch failure when 'error' came first).
C24_OutcomeOnlyAfterSubprocessEvent ==
    \A c \in Calls :
        promise[c].state # "pending" =>
            /\ child[c].status \in {"errored", "closed"}
            /\ promise[c] = OwnOutcome(c)

\* C24, amended: a call whose output directory could not be created has
\* the mkdir rejection as its outcome and never had a subprocess; every
\* other call is pending while its subprocess runs and has, once the
\* subprocess emitted 'close' or 'error', the one outcome the first of
\* these events calls for, which a later 'close' leaves unchanged.
C24_OneOutcomePerCall ==
    \A c \in Calls :
        /\ pc[c] = "threw" => (promise[c] = MkdirError /\ spawnCount[c] = 0 /\ child[c] = NoChild)
        /\ pc[c] \in {"idle", "mkdir"} => promise[c] = Pending
        /\ pc[c] = "spawned" =>
                /\ promise[c] = OwnOutcome(c)
                /\ promise[c].state # "pending" <=> child[c].status \in {"errored", "closed"}

\* A launch failure whose 'close' has followed its 'error'.
C24_Witness ==
    \E c \in Calls :
        /\ pc[c] = "spawned"
        /\ args[c] # <<>>
        /\ child[c].status = "closed"
        /\ child[c].exitCode = LaunchErrno
        /\ promise[c] = SpawnError

\* ----------------------------------------------------------------- C25
\* The position of the i-th "-i" of an argument list, or 0.
NthInput(a, i) ==
    LET at == {k \in DOMAIN a : a[k] = "-i"}
        hits == {k \in at : Cardinality({m \in at : m <= k}) = i}
    IN  IF hits = {} THEN 0 ELSE CHOOSE k \in hits : TRUE

\* C25: in every call built from n >= 1 stems the arguments carry n
\* inputs, the i-th of them stems[i].filePath; the graph has n chains, the
\* i-th reading input stream i, applying stems[i]'s gain and pan and
\* labelled a<i>; and the final stage takes those n labels.
C25_IndexAgreement ==
    \A c \in Calls :
        (Built(c) /\ options[c].stems # <<>>) =>
            LET stems == options[c].stems
                n == Len(stems)
                a == args[c]
                g == filterComplex[c]
                stmts == Statements(g)
                last == stmts[Len(stmts)]
                labels == {"[a" \o ToString(i - 1) \o "]" : i \in 1..n}
            IN  /\ Count(a, "-i") = n
                /\ \A i \in 1..n :
                        /\ NthInput(a, i) # 0
                        /\ NthInput(a, i) < Len(a)
                        /\ a[NthInput(a, i) + 1] = stems[i].filePath
                /\ Len(stmts) = n + 1
                /\ \A i \in 1..n :
                        LET chain == stmts[i]
                            p == stems[i].pan
                        IN  /\ Len(chain) >= 4
                            /\ chain[1] = "[" \o ToString(i - 1) \o ":a]"
                            /\ chain[2] = "volume="
                            /\ Decimal(chain[3]) = stems[i].volume
                            /\ ChannelGains(chain) = <<IF p <= 0 THEN Unity ELSE Unity - p,
                                                       IF p >= 0 THEN Unity ELSE Unity + p>>
                            /\ chain[Len(chain)] = "[a" \o ToString(i - 1) \o "]"
                /\ Cardinality({k \in DOMAIN last : last[k] \in labels}) = n
                /\ \A i \in 1..n : Count(last, "[a" \o ToString(i - 1) \o "]") = 1

\* ----------------------------------------------------------------- C26
\* The notifications created for job j.
NotificationsOf(j) == SelectSeq(notifications, LAMBDA n : n.relatedId = j)

\* C26: when a run of processMixJob has ended, the job's status is
\* "completed" or "failed" and exactly one notification exists for the
\* job: mix_complete if the status is "completed", mix_failed if it is
\* "failed".
C26_TerminalStatusAndOneNotification ==
    \A j \in JobIds :
        run[j].pc \in {"done", "rejected"} =>
            /\ mixJobs[j].status \in {"completed", "failed"}
            /\ Len(NotificationsOf(j)) = 1
            /\ NotificationsOf(j)[1].type =
                    (IF mixJobs[j].status = "completed" THEN "mix_complete" ELSE "mix_failed")

\* ----------------------------------------------------------------- C27
\* The phases are in order: a phase under way or done has only done
\* phases before it.
PhasesInOrder(doc) ==
    \A i \in DOMAIN doc.phases :
        doc.phases[i].status \in {"processing", "completed"} =>
            \A k \in 1..(i - 1) : doc.phases[k].status = "completed"

\* The mean of the phase progresses, rounded to the nearest integer.
RoundedMean(doc) ==
    LET n == Len(doc.phases)
        total == SumProgress(doc.phases)
    IN  (2 * total + n) \div (2 * n)

\* C27: while a mix job is processed its phases are in order, its overall
\* progress is the rounded mean of the five phase progresses and never
\* decreases, and a job in a terminal status has no phase left
\* "processing".
C27_PhasesAndProgress ==
    /\ [](\A j \in DOMAIN mixJobs :
            /\ Len(mixJobs[j].phases) = 5
            /\ PhasesInOrder(mixJobs[j])
            /\ mixJobs[j].progress = RoundedMean(mixJobs[j])
            /\ mixJobs[j].status \in {"completed", "failed"} =>
                    \A i \in DOMAIN mixJobs[j].phases : mixJobs[j].phases[i].status # "processing")
    /\ [][\A j \in DOMAIN mixJobs : mixJobs'[j].progress >= mixJobs[j].progress]_vars

\* ----------------------------------------------------------------- C28
\* The jobs applySuggestion inserted for suggestion s: those based on the
\* suggestion's mix whose prompt carries the suggestion's description.
JobsOf(s) ==
    LET suggestion == mixSuggestions[s]
    IN  {j \in DOMAIN mixJobs :
            /\ mixJobs[j].parentVersionId = <<suggestion.mixJobId>>
            /\ mixJobs[j].prompt = NewPrompt(mixJobs[suggestion.mixJobId].prompt,
                                             Description(suggestion.type))}

\* A step in which applySuggestion(s) was called and answered.
AppliedStep(s) == reply' # reply /\ reply'.fn = "applySuggestion" /\ reply'.arg = s

\* C28: a suggestion has one job when it is applied and none before; an
\* applied suggestion stays applied; and applySuggestion called on an
\* applied suggestion throws and leaves every table as it was.
C28_AppliedAtMostOnce ==
    /\ [](\A s \in DOMAIN mixSuggestions :
            Cardinality(JobsOf(s)) = IF mixSuggestions[s].applied THEN 1 ELSE 0)
    /\ [][\A s \in DOMAIN mixSuggestions :
            /\ mixSuggestions[s].applied => mixSuggestions'[s].applied
            /\ (AppliedStep(s) /\ mixSuggestions[s].applied) =>
                    /\ reply'.error = <<"Suggestion has already been applied">>
                    /\ reply'.value = <<>>
                    /\ UNCHANGED <<mixJobs, mixSuggestions, notifications, scheduled, run>>]_vars

\* applySuggestion was called again on a suggestion whose job exists.
C28_Witness ==
    \E s \in DOMAIN mixSuggestions :
        /\ mixSuggestions[s].applied
        /\ Cardinality(JobsOf(s)) = 1
        /\ reply = Threw("applySuggestion", s, "Suggestion has already been applied")

\* ----------------------------------------------------------------- C29
\* C29: no two mix jobs of one project carry the same version number.
C29_VersionsUnique ==
    \A i, j \in DOMAIN mixJobs :
        (i # j /\ mixJobs[i].projectId = mixJobs[j].projectId) =>
            mixJobs[i].version # mixJobs[j].version

\* ----------------------------------------------------------------- C30
\* How often processMixJob was scheduled for job j: the runs the
\* scheduler still holds and the run it has started.
TimesScheduled(j) == scheduled[j] + (IF run[j].pc = "none" THEN 0 ELSE 1)

\* C30: every job in the mixJobs table (each is inserted with status
\* "queued") has had processMixJob scheduled for it exactly once, so a
\* job is "queued" only while its run is still to start or has just begun.
C30_ScheduledExactlyOnce ==
    \A j \in DOMAIN mixJobs :
        /\ TimesScheduled(j) = 1
        /\ mixJobs[j].status = "queued" => run[j].pc \in {"none", "begin"}

====
